---- MODULE Spec2Model ----
(***************************************************************************)
(* Model of script.js: the start/stop controller, the asynchronous sensor  *)
(* initialisation, the periodic ping timer, the radar animation loop and   *)
(* the scrolling spectrogram buffer with its HSV colour mapping.           *)
(*                                                                         *)
(* The browser runs every handler to completion on one thread; an async    *)
(* function is cut at each await.  One action is one such run: a click     *)
(* handler up to its first await, the continuation after a promise         *)
(* settles, one timer callback, one animation-frame callback.              *)
(*                                                                         *)
(* Objects created by the k-th accepted start are named k; the globals     *)
(* audioCtx, analyser, micStream, magSensor, nfcReader hold such a name,   *)
(* or 0 for null.                                                          *)
(*                                                                         *)
(* Left out: the 'reading' listeners of the magnetometer and the NFC       *)
(* reader, the text of pingStatus, and alertSound; they write status text  *)
(* and play a tone and touch none of the variables below.                  *)
(*                                                                         *)
(* Numbers: the radar angle is an integer count of microradians; a hue is  *)
(* an exact fraction, and Math.round is taken of the exact value.          *)
(* The index of line 119 is computed as the language computes it: the      *)
(* quotient y / specHeight and its product with data.length are IEEE-754   *)
(* doubles, each rounded to 53 significant bits, nearest-even; the         *)
(* significand is kept in three limbs (13, 20 and 20 bits).                *)
(***************************************************************************)
EXTENDS Integers, Sequences, FiniteSets

\* ---------------------------------------------------------------- bounds

\* accepted start requests (runs of the start handler past its guard)
MaxStarts == 2
\* spectrogram width and height in pixels (600 x 200 in script.js, line 15)
specWidth == 3
specHeight == 2
\* analyser.frequencyBinCount, the length of a frame the analyser delivers
\* (fftSize / 2 = 1024 in script.js)
BinCount == 1
\* longest frame handed to updateSpectrogram on its own
MaxFrameLen == 2
\* radar ticks drawn by queued callbacks, and pings answered while hunting,
\* that Spec follows
MaxTicks == 1
MaxPings == 1
\* longest frame whose row indices are computed at the full height
MaxIdxLen == 200

\* specHeight and analyser.frequencyBinCount as script.js has them (line 15,
\* and fftSize / 2 of line 43): line 119 is followed with these in SpecIdx
FullHeight == 200
FullBinCount == 1024

\* sample bytes the frames are built from
SampleBytes == {0, 200}

\* the radar angle is kept in microradians
AngleStep == 100000
TwoPi == 6283185

Starts == 1..MaxStarts

\* what a host may provide: 'Magnetometer' in window, 'NDEFReader' in window,
\* window.ethereum, and an abort method on its NDEFReader
Features == {"Magnetometer", "NDEFReader", "ethereum", "abort"}

Hosts == {w \in SUBSET Features : "abort" \in w => "NDEFReader" \in w}

VARIABLES
    hunting,      \* let hunting
    audioCtx,     \* let audioCtx: name of the context, 0 for null
    analyser,     \* let analyser: name of the context it belongs to, 0 for null
    micStream,    \* let micStream
    magSensor,    \* let magSensor
    nfcReader,    \* let nfcReader
    radarAngle,   \* let radarAngle
    specData,     \* let specData: the RGBA buffer, index -> byte
    status,       \* innerHTML of the element 'status'
    radarCanvas,  \* what the radar canvas shows
    window,       \* which of Features the host provides
    started,      \* number of start handlers that passed the guard
    pc,           \* where each start handler stands
    ctxOpen,      \* audio contexts created and not closed
    micLive,      \* microphone streams obtained (nothing stops their tracks)
    magOn,        \* magnetometers started and not stopped
    nfcOn,        \* NFC readers with a scan requested and not ended
    intervals,    \* ping timers registered by setInterval (none is cleared)
    rafPending,   \* callbacks queued by requestAnimationFrame
    last,         \* the handler that ran last, and hunting when it was entered
    frames,       \* frames given to updateSpectrogram so far, newest last (at most specWidth kept)
    probe         \* the function applied on its own last, its argument and its result

vars == <<hunting, audioCtx, analyser, micStream, magSensor, nfcReader, radarAngle,
          specData, status, radarCanvas, window, started, pc, ctxOpen, micLive,
          magOn, nfcOn, intervals, rafPending, last, frames, probe>>

\* the state of the script proper: everything but the record of the last handler
progVars == <<hunting, audioCtx, analyser, micStream, magSensor, nfcReader, radarAngle,
              specData, status, radarCanvas, window, started, pc, ctxOpen, micLive,
              magOn, nfcOn, intervals, rafPending, frames>>

NoProbe == [fn |-> "none", arg |-> <<>>, out |-> <<>>]

\* ------------------------------------------------------- colour mapping

\* Math.round of the rational n / d, d > 0, n >= 0
Round(n, d) == (2 * n + d) \div (2 * d)

\* hsvToRgb rounding r * 256 instead of r * 255
hsvToRgbScale256(h, s, v) ==
    LET D  == 60 * h[2]
        i  == h[1] \div D
        fn == h[1] - i * D
        p  == v * (1 - s) * D
        q  == v * (D - fn * s)
        t  == v * (D - (D - fn) * s)
        vv == v * D
        rgb == CASE i % 6 = 0 -> <<vv, t, p>>
                 [] i % 6 = 1 -> <<q, vv, p>>
                 [] i % 6 = 2 -> <<p, vv, t>>
                 [] i % 6 = 3 -> <<p, q, vv>>
                 [] i % 6 = 4 -> <<t, p, vv>>
                 [] OTHER     -> <<vv, p, q>>
    IN  <<Round(rgb[1] * 256, D), Round(rgb[2] * 256, D), Round(rgb[3] * 256, D)>>

\* hsvToRgb with the rows of sectors 3 and 4 exchanged
hsvToRgbSwapped(h, s, v) ==
    LET D  == 60 * h[2]
        i  == h[1] \div D
        fn == h[1] - i * D
        p  == v * (1 - s) * D
        q  == v * (D - fn * s)
        t  == v * (D - (D - fn) * s)
        vv == v * D
        rgb == CASE i % 6 = 0 -> <<vv, t, p>>
                 [] i % 6 = 1 -> <<q, vv, p>>
                 [] i % 6 = 2 -> <<p, vv, t>>
                 [] i % 6 = 3 -> <<t, p, vv>>
                 [] i % 6 = 4 -> <<p, q, vv>>
                 [] OTHER     -> <<vv, p, q>>
    IN  <<Round(rgb[1] * 255, D), Round(rgb[2] * 255, D), Round(rgb[3] * 255, D)>>

\* hsvToRgb(h, s, v) with the hue given as the fraction h[1] / h[2] of a degree
\* and s, v integers; the channels r, g, b are carried as numerators over D.
hsvToRgb(h, s, v) ==
    LET D  == 60 * h[2]
        i  == h[1] \div D
        fn == h[1] - i * D
        p  == v * (1 - s) * D
        q  == v * (D - fn * s)
        t  == v * (D - (D - fn) * s)
        vv == v * D
        rgb == CASE i % 6 = 0 -> <<vv, t, p>>
                 [] i % 6 = 1 -> <<q, vv, p>>
                 [] i % 6 = 2 -> <<p, vv, t>>
                 [] i % 6 = 3 -> <<p, q, vv>>
                 [] i % 6 = 4 -> <<t, p, vv>>
                 [] OTHER     -> <<vv, p, q>>
    IN  <<Round(rgb[1] * 255, D), Round(rgb[2] * 255, D), Round(rgb[3] * 255, D)>>

\* ------------------------------------------------------------ spectrogram

BufLen == specWidth * specHeight * 4

\* a buffer created opaque instead of zeroed
OpaqueBuffer == [k \in 0..(BufLen - 1) |-> IF k % 4 = 3 THEN 255 ELSE 0]

\* line 16: new Uint8ClampedArray(specWidth * specHeight * 4)
ZeroBuffer == [k \in 0..(BufLen - 1) |-> 0]

\* lines 109-114: the four channels of pixel (x, y) take those of pixel (x+1, y)
ShiftPixel(buf, x, y) ==
    LET idx     == (y * specWidth + x) * 4
        nextIdx == (y * specWidth + x + 1) * 4
        b1 == [buf EXCEPT ![idx] = buf[nextIdx]]
        b2 == [b1 EXCEPT ![idx + 1] = b1[nextIdx + 1]]
        b3 == [b2 EXCEPT ![idx + 2] = b2[nextIdx + 2]]
    IN  [b3 EXCEPT ![idx + 3] = b3[nextIdx + 3]]

\* ShiftFrom with the bound of the outer loop one short (x < specWidth - 2)
RECURSIVE ShiftFromShort(_, _, _)
ShiftFromShort(buf, x, y) ==
    IF x >= specWidth - 2 THEN buf
    ELSE IF y >= specHeight THEN ShiftFromShort(buf, x + 1, 0)
    ELSE ShiftFromShort(ShiftPixel(buf, x, y), x, y + 1)

\* lines 107-116, the loops run in the order of the code: x outer, y inner
RECURSIVE ShiftFrom(_, _, _)
ShiftFrom(buf, x, y) ==
    IF x >= specWidth - 1 THEN buf
    ELSE IF y >= specHeight THEN ShiftFrom(buf, x + 1, 0)
    ELSE ShiftFrom(ShiftPixel(buf, x, y), x, y + 1)

\* ---- line 119, Math.floor((y / specHeight) * data.length), in doubles.
\* A positive double is sig * 2^-(e + 53) with sig = hi * 2^40 + mid * 2^20 + lo;
\* the operators below are for 0 <= y < h < 2048 and n < 2048.
Limb == 2^20

RECURSIVE BitLen(_)
BitLen(x) == IF x = 0 THEN 0 ELSE 1 + BitLen(x \div 2)

\* r doubled until the binary expansion of r / h starts with a 1
RECURSIVE Normalize(_, _, _)
Normalize(r, h, e) ==
    IF 2 * r >= h THEN [r |-> r, e |-> e] ELSE Normalize(2 * r, h, e + 1)

\* y / h for 0 < y < h: 53 bits of the quotient by long division, then the
\* round to nearest, ties to even, on the 54th bit and the remainder
DivDouble(y, h) ==
    LET nz  == Normalize(y, h, 0)
        hi  == (nz.r * 2^13) \div h
        r1  == (nz.r * 2^13) % h
        mid == (r1 * Limb) \div h
        r2  == (r1 * Limb) % h
        lo  == (r2 * Limb) \div h
        r3  == (r2 * Limb) % h
        g   == IF 2 * r3 >= h THEN 1 ELSE 0
        r4  == 2 * r3 - g * h
        up  == IF g = 1 /\ (r4 # 0 \/ lo % 2 = 1) THEN 1 ELSE 0
        lo1  == lo + up
        mid1 == mid + lo1 \div Limb
    IN  [hi |-> hi + mid1 \div Limb, mid |-> mid1 % Limb, lo |-> lo1 % Limb,
         e |-> nz.e]

\* q * n for the double q and the integer n > 0: the exact product, rounded to
\* 53 bits by dropping its d lowest bits, nearest, ties to even
MulDouble(q, n) ==
    LET a0 == q.lo * n
        a1 == q.mid * n + a0 \div Limb
        p2 == q.hi * n + a1 \div Limb
        p1 == a1 % Limb
        p0 == a0 % Limb
        d  == BitLen(p2) - 13
    IN  IF d <= 0 THEN [hi |-> p2, mid |-> p1, lo |-> p0, e |-> q.e]
        ELSE LET unit == 2^d
                 half == 2^(d - 1)
                 low  == p0 % unit
                 keep == p0 - low
                 up   == low > half \/ (low = half /\ (keep \div unit) % 2 = 1)
                 q0   == keep + (IF up THEN unit ELSE 0)
                 q1   == p1 + q0 \div Limb
             IN  [hi |-> p2 + q1 \div Limb, mid |-> q1 % Limb, lo |-> q0 % Limb,
                  e |-> q.e]

\* Math.floor of the double p: its bits above the binary point
FloorDouble(p) == p.hi \div 2^(p.e + 13)

\* Math.round in the place of Math.floor, on the exact value
FloorIndexRounded(y, h, n) == (2 * y * n + h) \div (2 * h)

\* line 119 for row y, height h and a frame of length n (0 / h and q * 0 are 0)
FloorIndex(y, h, n) ==
    IF y = 0 \/ n = 0 THEN 0 ELSE FloorDouble(MulDouble(DivDouble(y, h), n))

\* line 119
FreqIdx(y, data) == FloorIndex(y, specHeight, Len(data))

\* line 120: data[freqIdx] || 0 (data is 1-based here)
SampleAt(data, freqIdx) ==
    IF freqIdx >= 0 /\ freqIdx < Len(data) THEN data[freqIdx + 1] ELSE 0

\* ColorOf with the saturation 0 instead of 1
ColorOfUnsaturated(val) == hsvToRgb(<<val * 360, 255>>, 0, 1)

\* line 121
ColorOf(val) == hsvToRgb(<<val * 360, 255>>, 1, 1)

\* AppendPixel writing the leftmost column instead of the rightmost
AppendPixelLeft(buf, y, data) ==
    LET color == ColorOf(SampleAt(data, FreqIdx(y, data)))
        idx   == (y * specWidth) * 4
    IN  [buf EXCEPT ![idx] = color[1], ![idx + 1] = color[2],
                    ![idx + 2] = color[3], ![idx + 3] = 255]

\* lines 119-126 for one row
AppendPixel(buf, y, data) ==
    LET color == ColorOf(SampleAt(data, FreqIdx(y, data)))
        idx   == (y * specWidth + specWidth - 1) * 4
    IN  [buf EXCEPT ![idx] = color[1], ![idx + 1] = color[2],
                    ![idx + 2] = color[3], ![idx + 3] = 255]

\* AppendFrom with the loop one row short (y < specHeight - 1)
RECURSIVE AppendFromShort(_, _, _)
AppendFromShort(buf, y, data) ==
    IF y >= specHeight - 1 THEN buf
    ELSE AppendFromShort(AppendPixel(buf, y, data), y + 1, data)

\* lines 118-127
RECURSIVE AppendFrom(_, _, _)
AppendFrom(buf, y, data) ==
    IF y >= specHeight THEN buf
    ELSE AppendFrom(AppendPixel(buf, y, data), y + 1, data)

\* lines 105-130
updateSpectrogram(buf, data) == AppendFrom(ShiftFrom(buf, 0, 0), 0, data)

\* the frames kept as a record of what was given to updateSpectrogram
Remember(fs, data) ==
    IF Len(fs) < specWidth THEN Append(fs, data) ELSE Append(Tail(fs), data)

\* ------------------------------------------------------------------ radar

\* the rings and the sweep arm on the radar canvas; the blip of lines 170-177 is
\* drawn at random over them and is not kept
BlankCanvas == [rings |-> FALSE, line |-> -1]

\* NextAngle reducing modulo two pi instead of resetting
NextAngleMod(a) == (a + AngleStep) % TwoPi

\* lines 167-168
NextAngle(a) == IF a + AngleStep > TwoPi THEN 0 ELSE a + AngleStep

\* animate without the guard of line 153
animateUnguarded(queued) ==
    /\ radarCanvas' = [rings |-> TRUE, line |-> radarAngle]
    /\ radarAngle' = NextAngle(radarAngle)
    /\ rafPending' = queued + 1

\* animate advancing the angle before it draws the sweep line
animateAdvanceFirst(queued) ==
    IF ~hunting
    THEN /\ rafPending' = queued
         /\ UNCHANGED <<radarAngle, radarCanvas>>
    ELSE /\ radarCanvas' = [rings |-> TRUE, line |-> NextAngle(radarAngle)]
         /\ radarAngle' = NextAngle(radarAngle)
         /\ rafPending' = queued + 1

\* lines 152-179: animate(), called with `queued` callbacks left in the queue
animate(queued) ==
    IF ~hunting
    THEN /\ rafPending' = queued
         /\ UNCHANGED <<radarAngle, radarCanvas>>
    ELSE /\ radarCanvas' = [rings |-> TRUE, line |-> radarAngle]
         /\ radarAngle' = NextAngle(radarAngle)
         /\ rafPending' = queued + 1

\* ------------------------------------------------------------------- start

\* lines 83-90 and 23-24: the end of initSensors and of the start handler
Resume(id) ==
    /\ pc' = [pc EXCEPT ![id] = "done"]
    /\ animate(rafPending)
    /\ status' = "Scanning..."

\* lines 83-85: with window.ethereum the handler awaits once more
AfterNfc(id) ==
    IF "ethereum" \in window
    THEN /\ pc' = [pc EXCEPT ![id] = "eth"]
         /\ UNCHANGED <<radarAngle, radarCanvas, rafPending, status>>
    ELSE Resume(id)

\* StartClick without the guard of line 20
StartClickUnguarded ==
    /\ last' = [op |-> "start", was |-> hunting]
    /\ UNCHANGED probe
    /\ started < MaxStarts
    /\ started' = started + 1
    /\ hunting' = TRUE
    /\ audioCtx' = started + 1
    /\ ctxOpen' = ctxOpen \cup {started + 1}
    /\ pc' = [pc EXCEPT ![started + 1] = "mic"]
    /\ UNCHANGED <<analyser, micStream, magSensor, nfcReader, radarAngle, specData,
                   status, radarCanvas, window, micLive, magOn, nfcOn, intervals,
                   rafPending, frames>>

\* lines 19-22 and 39-40: the click handler up to the await of getUserMedia
StartClick ==
    /\ last' = [op |-> "start", was |-> hunting]
    /\ UNCHANGED probe
    /\ IF hunting
       THEN UNCHANGED progVars
       ELSE /\ started < MaxStarts
            /\ started' = started + 1
            /\ hunting' = TRUE
            /\ audioCtx' = started + 1
            /\ ctxOpen' = ctxOpen \cup {started + 1}
            /\ pc' = [pc EXCEPT ![started + 1] = "mic"]
            /\ UNCHANGED <<analyser, micStream, magSensor, nfcReader, radarAngle, specData,
                           status, radarCanvas, window, micLive, magOn, nfcOn, intervals,
                           rafPending, frames>>

\* lines 40-82: getUserMedia resolved; runs to the next await or to the end
MicResolve(id) ==
    /\ pc[id] = "mic"
    /\ last' = [op |-> "init", was |-> hunting]
    /\ UNCHANGED probe
    /\ micStream' = id
    /\ micLive' = micLive \cup {id}
    /\ analyser' = audioCtx
    /\ intervals' = intervals \cup {id}
    /\ IF "Magnetometer" \in window
       THEN magSensor' = id /\ magOn' = magOn \cup {id}
       ELSE UNCHANGED <<magSensor, magOn>>
    /\ IF "NDEFReader" \in window
       THEN /\ nfcReader' = id
            /\ nfcOn' = nfcOn \cup {id}
            /\ pc' = [pc EXCEPT ![id] = "nfc"]
            /\ UNCHANGED <<radarAngle, radarCanvas, rafPending, status>>
       ELSE /\ UNCHANGED <<nfcReader, nfcOn>>
            /\ AfterNfc(id)
    /\ UNCHANGED <<hunting, audioCtx, specData, window, started, ctxOpen, frames>>

\* line 40: getUserMedia rejected; initSensors and the start handler end there
MicReject(id) ==
    /\ pc[id] = "mic"
    /\ last' = [op |-> "init", was |-> hunting]
    /\ UNCHANGED probe
    /\ pc' = [pc EXCEPT ![id] = "failed"]
    /\ UNCHANGED <<hunting, audioCtx, analyser, micStream, magSensor, nfcReader,
                   radarAngle, specData, status, radarCanvas, window, started, ctxOpen,
                   micLive, magOn, nfcOn, intervals, rafPending, frames>>

\* lines 74-81: scan() resolved
NfcResolve(id) ==
    /\ pc[id] = "nfc"
    /\ id \in nfcOn
    /\ last' = [op |-> "init", was |-> hunting]
    /\ UNCHANGED probe
    /\ AfterNfc(id)
    /\ UNCHANGED <<hunting, audioCtx, analyser, micStream, magSensor, nfcReader,
                   specData, window, started, ctxOpen, micLive, magOn, nfcOn,
                   intervals, frames>>

\* line 74: scan() rejected
NfcReject(id) ==
    /\ pc[id] = "nfc"
    /\ last' = [op |-> "init", was |-> hunting]
    /\ UNCHANGED probe
    /\ pc' = [pc EXCEPT ![id] = "failed"]
    /\ nfcOn' = nfcOn \ {id}
    /\ UNCHANGED <<hunting, audioCtx, analyser, micStream, magSensor, nfcReader,
                   radarAngle, specData, status, radarCanvas, window, started, ctxOpen,
                   micLive, magOn, intervals, rafPending, frames>>

\* lines 85-90: ethereum.request settled, resolved or not
EthSettle(id) ==
    /\ pc[id] = "eth"
    /\ \/ /\ last' = [op |-> "init", was |-> hunting]
          /\ Resume(id)
       \/ /\ last' = [op |-> "init", was |-> hunting]
          /\ pc' = [pc EXCEPT ![id] = "failed"]
          /\ UNCHANGED <<radarAngle, radarCanvas, rafPending, status>>
    /\ UNCHANGED <<hunting, audioCtx, analyser, micStream, magSensor, nfcReader,
                   specData, window, started, ctxOpen, micLive, magOn, nfcOn,
                   intervals, frames, probe>>

\* -------------------------------------------------------------------- stop

\* lines 28-34.  NDEFReader, as Web NFC defines it, has no abort method, so
\* line 32 raises a TypeError and line 33 is not reached; on a host whose reader
\* has one the scan ends.  Which it is belongs to the host.
\* a stop handler that flips the flag instead of clearing it
StopClickToggle ==
    /\ last' = [op |-> "stop", was |-> hunting]
    /\ UNCHANGED probe
    /\ hunting' = ~hunting
    /\ ctxOpen' = ctxOpen \ {audioCtx}
    /\ magOn' = magOn \ {magSensor}
    /\ IF nfcReader = 0
       THEN status' = "Idle" /\ UNCHANGED nfcOn
       ELSE IF "abort" \in window
       THEN status' = "Idle" /\ nfcOn' = nfcOn \ {nfcReader}
       ELSE UNCHANGED <<status, nfcOn>>
    /\ UNCHANGED <<audioCtx, analyser, micStream, magSensor, nfcReader, radarAngle,
                   specData, radarCanvas, window, started, pc, micLive, intervals,
                   rafPending, frames>>

StopClick ==
    /\ last' = [op |-> "stop", was |-> hunting]
    /\ UNCHANGED probe
    /\ hunting' = FALSE
    /\ ctxOpen' = ctxOpen \ {audioCtx}
    /\ magOn' = magOn \ {magSensor}
    /\ IF nfcReader = 0
       THEN status' = "Idle" /\ UNCHANGED nfcOn
       ELSE IF "abort" \in window
       THEN status' = "Idle" /\ nfcOn' = nfcOn \ {nfcReader}
       ELSE UNCHANGED <<status, nfcOn>>
    /\ UNCHANGED <<audioCtx, analyser, micStream, magSensor, nfcReader, radarAngle,
                   specData, radarCanvas, window, started, pc, micLive, intervals,
                   rafPending, frames>>

\* ------------------------------------------------------------ timer, frame

\* lines 95-97: a frame the analyser delivers, BinCount bytes.  What the spectrum
\* holds does not steer the handlers, so Spec follows one flat spectrum; SpecFB
\* gives updateSpectrogram frames of every content.
AnalyserFrames == {[k \in 1..BinCount |-> b] : b \in SampleBytes \ {0}}

\* lines 47-56 and 94-102: one run of the callback of the timer `id`
Ping(id) ==
    /\ id \in intervals
    /\ last' = [op |-> "ping", was |-> hunting]
    /\ UNCHANGED probe
    /\ IF ~hunting
       THEN UNCHANGED <<specData, frames>>
       ELSE \E data \in AnalyserFrames :
                /\ specData' = updateSpectrogram(specData, data)
                /\ frames' = Remember(frames, data)
    /\ UNCHANGED <<hunting, audioCtx, analyser, micStream, magSensor, nfcReader,
                   radarAngle, status, radarCanvas, window, started, pc, ctxOpen,
                   micLive, magOn, nfcOn, intervals, rafPending>>

\* one callback queued by requestAnimationFrame is run
Frame ==
    /\ rafPending > 0
    /\ last' = [op |-> "frame", was |-> hunting]
    /\ UNCHANGED probe
    /\ animate(rafPending - 1)
    /\ UNCHANGED <<hunting, audioCtx, analyser, micStream, magSensor, nfcReader,
                   specData, status, window, started, pc, ctxOpen, micLive, magOn,
                   nfcOn, intervals, frames>>

\* ------------------------------------------------------------ specification

\* lines 1-16: the state once the script has loaded
Loaded ==
    /\ hunting = FALSE
    /\ audioCtx = 0
    /\ analyser = 0
    /\ micStream = 0
    /\ magSensor = 0
    /\ nfcReader = 0
    /\ radarAngle = 0
    /\ specData = ZeroBuffer
    /\ status = ""
    /\ radarCanvas = BlankCanvas
    /\ window \in Hosts
    /\ started = 0
    /\ pc = [id \in Starts |-> "none"]
    /\ ctxOpen = {}
    /\ micLive = {}
    /\ magOn = {}
    /\ nfcOn = {}
    /\ intervals = {}
    /\ rafPending = 0
    /\ last = [op |-> "load", was |-> FALSE]
    /\ frames = <<>>

Init == Loaded /\ probe = NoProbe

\* Spec follows every interleaving of the handlers, with the radar ticks and the
\* answered pings capped
TickCap == hunting => radarAngle < MaxTicks * AngleStep
PingCap == hunting => Len(frames) < MaxPings

FrameCapped == TickCap /\ Frame
PingCapped(id) == PingCap /\ Ping(id)

Next ==
    \/ StartClick
    \/ StopClick
    \/ \E id \in Starts : MicResolve(id)
    \/ \E id \in Starts : MicReject(id)
    \/ \E id \in Starts : NfcResolve(id)
    \/ \E id \in Starts : NfcReject(id)
    \/ \E id \in Starts : EthSettle(id)
    \/ \E id \in Starts : PingCapped(id)
    \/ FrameCapped

Spec == Init /\ [][Next]_vars

\* SpecRadar follows the radar through its whole turn on a host with none of the
\* optional sensors, the ping timers left aside
InitRadar == Init /\ window = {}

NextRadar ==
    \/ StartClick
    \/ StopClick
    \/ \E id \in Starts : MicResolve(id)
    \/ \E id \in Starts : MicReject(id)
    \/ Frame

SpecRadar == InitRadar /\ [][NextRadar]_vars

\* SpecFB applies updateSpectrogram on its own, to frames of every length up to
\* MaxFrameLen
RECURSIVE SeqsUpTo(_)
SeqsUpTo(n) ==
    IF n = 0 THEN {<<>>}
    ELSE SeqsUpTo(n - 1) \cup [1..n -> SampleBytes]

Frames == SeqsUpTo(MaxFrameLen)

Update(data) ==
    /\ specData' = updateSpectrogram(specData, data)
    /\ frames' = Remember(frames, data)
    /\ last' = [op |-> "update", was |-> hunting]
    /\ UNCHANGED probe
    /\ UNCHANGED <<hunting, audioCtx, analyser, micStream, magSensor, nfcReader,
                   radarAngle, status, radarCanvas, window, started, pc, ctxOpen,
                   micLive, magOn, nfcOn, intervals, rafPending>>

InitFB == Init /\ window = {}

NextFB == \E data \in Frames : Update(data)

SpecFB == InitFB /\ [][NextFB]_vars

\* SpecColor applies the colour mapping of line 121 on its own, to every sample
\* byte over 255 and to one half
NormValues == {<<b, 255>> : b \in 0..255} \cup {<<1, 2>>}

\* line 121 for the normalized value nv[1] / nv[2]: hsvToRgb(value * 360, 1, 1)
mapToColor(nv) == hsvToRgb(<<nv[1] * 360, nv[2]>>, 1, 1)

MapColor(nv) ==
    /\ probe' = [fn |-> "mapToColor", arg |-> nv, out |-> mapToColor(nv)]
    /\ UNCHANGED <<hunting, audioCtx, analyser, micStream, magSensor, nfcReader,
                   radarAngle, specData, status, radarCanvas, window, started, pc,
                   ctxOpen, micLive, magOn, nfcOn, intervals, rafPending, last, frames>>

NextColor == \E nv \in NormValues : MapColor(nv)

SpecColor == InitFB /\ [][NextColor]_vars

\* SpecIdx follows line 119 on its own at the height of script.js, for one
\* frame length per behaviour: every length up to MaxIdxLen, the empty frame,
\* and the length the analyser delivers
FrameLengths == (0..MaxIdxLen) \cup {FullBinCount}

\* the index sampled for each row y = 0..FullHeight - 1 (kept at position y + 1)
RowIndices(n) == [k \in 1..FullHeight |-> FloorIndex(k - 1, FullHeight, n)]

SampleRows ==
    /\ probe.fn = "length"
    /\ probe' = [fn |-> "freqIdx", arg |-> probe.arg, out |-> RowIndices(probe.arg[1])]
    /\ UNCHANGED <<hunting, audioCtx, analyser, micStream, magSensor, nfcReader,
                   radarAngle, specData, status, radarCanvas, window, started, pc,
                   ctxOpen, micLive, magOn, nfcOn, intervals, rafPending, last, frames>>

InitIdx ==
    /\ Loaded
    /\ window = {}
    /\ \E n \in FrameLengths : probe = [fn |-> "length", arg |-> <<n>>, out |-> <<>>]

NextIdx == SampleRows

SpecIdx == InitIdx /\ [][NextIdx]_vars

\* ------------------------------------------------------------------ claims

InFlight == {id \in Starts : pc[id] \in {"mic", "nfc", "eth"}}

\* pixel (x, y) of a buffer as <<r, g, b, a>>
Pixel(buf, x, y) ==
    LET idx == (y * specWidth + x) * 4
    IN  <<buf[idx], buf[idx + 1], buf[idx + 2], buf[idx + 3]>>

\* the column a frame is colourised to, row by row
ColumnOf(data) ==
    [y \in 0..(specHeight - 1) |->
        LET c == ColorOf(SampleAt(data, FreqIdx(y, data)))
        IN  <<c[1], c[2], c[3], 255>>]

Column(buf, x) == [y \in 0..(specHeight - 1) |-> Pixel(buf, x, y)]

ZeroColumn == [y \in 0..(specHeight - 1) |-> <<0, 0, 0, 0>>]

IsZeroFrame(data) == \A k \in 1..Len(data) : data[k] = 0

\* C1 (as claimed): once stop has run, no start is in progress and none came
\* later, no audio context, microphone stream, magnetometer or NFC scan that a
\* start acquired is still open or running.
C1_StopReleasesAll ==
    (~hunting /\ started > 0 /\ InFlight = {})
        => (ctxOpen = {} /\ micLive = {} /\ magOn = {} /\ nfcOn = {})

\* C2: a start request received while hunting is true changes nothing of the
\* script's state: no resource, no timer, no radar loop, flag, sweep angle and
\* framebuffer as they were.
C2_StartWhileActiveIsNoOp ==
    [][(last'.op = "start" /\ hunting) => UNCHANGED progVars]_vars

C2_Witness ==
    /\ last = [op |-> "start", was |-> TRUE]
    /\ hunting
    /\ rafPending > 0
    /\ intervals # {}

\* C3 (as claimed): at most one radar animation callback is pending at any time.
C3_OneRadarCallback == rafPending <= 1

\* C4 (as claimed): a callback invoked once the flag is false is not scheduled
\* again: the ping timer whose callback ran is registered no longer, the
\* animation callback that ran has left the queue.
C4_ResidualRunIsLast ==
    [][/\ (last'.op = "ping" /\ ~hunting)
            => Cardinality(intervals') < Cardinality(intervals)
       /\ (last'.op = "frame" /\ ~hunting)
            => rafPending' = rafPending - 1]_vars

\* C5: an animation tick invoked while hunting is false leaves the sweep angle
\* and the canvas as they were and queues no further tick; and no step taken
\* while hunting is false changes the sweep angle.
C5_IdleTickInert ==
    [][/\ (last'.op = "frame" /\ ~hunting)
            => /\ radarAngle' = radarAngle
               /\ radarCanvas' = radarCanvas
               /\ rafPending' = rafPending - 1
       /\ ~hunting => radarAngle' = radarAngle]_vars

C5_Witness ==
    /\ last = [op |-> "frame", was |-> FALSE]
    /\ radarAngle > 0
    /\ rafPending = 0

\* C6 (as claimed): on every animation tick run while hunting, the sweep angle
\* afterwards is the angle before plus the increment, modulo two pi.
C6_AngleModTwoPi ==
    [][(last'.op = "frame" /\ hunting)
            => radarAngle' = (radarAngle + AngleStep) % TwoPi]_vars

\* C6 (amended): on every animation tick run while hunting, the sweep angle
\* afterwards is the angle before plus the increment if that does not exceed
\* two pi, and 0 otherwise; and the angle changes in no other way.
C6_AngleResetsAtTwoPi ==
    [][/\ (last'.op = "frame" /\ hunting)
            => radarAngle' = (IF radarAngle + AngleStep <= TwoPi
                              THEN radarAngle + AngleStep ELSE 0)
       /\ radarAngle' # radarAngle
            => /\ hunting
               /\ radarAngle' = (IF radarAngle + AngleStep <= TwoPi
                                 THEN radarAngle + AngleStep ELSE 0)]_vars

\* the tick on which the angle passed two pi has run
C6_Witness ==
    /\ last = [op |-> "frame", was |-> TRUE]
    /\ radarAngle = 0
    /\ radarCanvas.line + AngleStep > TwoPi

\* C7: after n updates the buffer holds the colourised columns of the last
\* min(n, W) frames in arrival order, the newest at column W-1 (after W
\* updates column x is the column of frame F_x), and zero columns before them.
C7_FifoShiftLaw ==
    LET n == Len(frames)
    IN  /\ \A k \in 1..n :
              Column(specData, specWidth - n + k - 1) = ColumnOf(frames[k])
        /\ \A x \in 0..(specWidth - n - 1) : Column(specData, x) = ZeroColumn

\* W updates with frames whose columns all differ have filled the buffer
C7_Witness ==
    /\ last.op = "update"
    /\ Len(frames) = specWidth
    /\ \A i, j \in 1..specWidth :
          i # j => ColumnOf(frames[i]) # ColumnOf(frames[j])

\* C8: after exactly one update of the fresh buffer every pixel of columns
\* 0..W-2 is zero in all four channels and the pixels of column W-1 are not.
C8_OneUpdateTouchesLastColumn ==
    Len(frames) = 1 =>
        /\ \A x \in 0..(specWidth - 2) : Column(specData, x) = ZeroColumn
        /\ \A y \in 0..(specHeight - 1) :
              Pixel(specData, specWidth - 1, y) # <<0, 0, 0, 0>>

C8_Witness ==
    /\ last.op = "update"
    /\ Len(frames) = 1
    /\ \E k \in 1..Len(frames[1]) : frames[1][k] # 0

\* C9: once the last W updates were all given all-zero frames, whatever the
\* buffer held before, every pixel is the colour of value 0 at full opacity
\* (so a further all-zero update leaves the buffer as it is).
C9_ZeroFramesConverge ==
    (Len(frames) = specWidth /\ \A k \in 1..specWidth : IsZeroFrame(frames[k]))
        => \A x \in 0..(specWidth - 1), y \in 0..(specHeight - 1) :
              Pixel(specData, x, y) = <<ColorOf(0)[1], ColorOf(0)[2], ColorOf(0)[3], 255>>

C9_Witness ==
    /\ last.op = "update"
    /\ Len(frames) = specWidth
    /\ \A k \in 1..specWidth : frames[k] = <<0, 0>>

\* C10: every byte of the framebuffer is 0 until the first update, and only a
\* ping answered while hunting, which runs updateSpectrogram, changes the
\* buffer: the start and stop handlers, sensor initialisation and radar ticks
\* leave every pixel as it was.
C10_BufferOwnedByUpdate ==
    [][/\ frames = <<>> => \A k \in DOMAIN specData : specData[k] = 0
       /\ frames' = <<>> => \A k \in DOMAIN specData' : specData'[k] = 0
       /\ specData' # specData => (last'.op = "ping" /\ hunting)]_vars

C10_Witness ==
    /\ last.op = "frame"
    /\ status = "Idle"
    /\ started = MaxStarts
    /\ \E k \in DOMAIN specData : specData[k] # 0

\* channel k of the colour c is larger than both others
Dominant(c, k) == \A j \in 1..3 : j # k => c[k] > c[j]

\* C11: for every sample byte b the colour mapped from b / 255 has red, green
\* and blue each an integer in 0..255, and the colour mapped from value 1 is
\* the colour mapped from value 0.
C11_ChannelsInRangeAndSeam ==
    probe.fn = "mapToColor" =>
        /\ \A k \in 1..3 : probe.out[k] \in 0..255
        /\ probe.arg = <<255, 255>> => probe.out = mapToColor(<<0, 255>>)

C11_Witness ==
    /\ probe.fn = "mapToColor"
    /\ probe.arg = <<255, 255>>

\* C12: the colour mapped from value 0 is (255, 0, 0) and the colour mapped
\* from value one half (hue 180) is (0, 255, 255).
C12_RedAtZeroCyanAtHalf ==
    probe.fn = "mapToColor" =>
        /\ probe.arg = <<0, 255>> => probe.out = <<255, 0, 0>>
        /\ probe.arg = <<1, 2>> => probe.out = <<0, 255, 255>>

C12_Witness ==
    /\ probe.fn = "mapToColor"
    /\ probe.arg = <<1, 2>>

\* C13 (as claimed): the lowest sample, 0, is mapped to a colour whose largest
\* channel is blue and the highest, 255, to one whose largest channel is red.
C13_BlueLowRedHigh ==
    probe.fn = "mapToColor" =>
        /\ probe.arg = <<0, 255>> => Dominant(probe.out, 3)
        /\ probe.arg = <<255, 255>> => Dominant(probe.out, 1)

\* C14 (as claimed): whenever the start that ran last has finished, normally or
\* by a failed acquisition, and the flag is true, a radar callback is pending.
C14_FinishedStartHasRadarLoop ==
    \A id \in Starts :
        (hunting /\ started = id /\ pc[id] \in {"done", "failed"}) => rafPending > 0

\* C15: a stop handled while the flag is false leaves the flag false, the
\* registered timers, the queued radar callbacks, the sweep angle and the
\* framebuffer as they were; a stop handled right after a stop changes nothing.
C15_StopWhileIdleInert ==
    [][ /\ (last'.op = "stop" /\ ~hunting) =>
             /\ ~hunting'
             /\ UNCHANGED <<intervals, rafPending, radarAngle, specData, radarCanvas,
                            started, pc, micLive, frames>>
             /\ ctxOpen' \subseteq ctxOpen
             /\ magOn' \subseteq magOn
             /\ nfcOn' \subseteq nfcOn
        /\ (last.op = "stop" /\ last'.op = "stop") => UNCHANGED progVars ]_vars

C15_Witness ==
    /\ last = [op |-> "stop", was |-> FALSE]
    /\ started > 0
    /\ intervals # {}
    /\ radarAngle > 0

\* rows of the full-height column, and the exact floor of y * n / FullHeight
Rows == 0..(FullHeight - 1)

ExactFloor(y, n) == (y * n) \div FullHeight

C17_AtMostOnePingTimer == Cardinality(intervals) <= 1

\* C18 (as claimed): between handlers the status reads "Scanning..." only if
\* the flag is true, and reads "Idle" when the handler that ran last is stop.
C18_StatusAgreesWithFlag ==
    /\ (InFlight = {} /\ status = "Scanning...") => hunting
    /\ last.op = "stop" => status = "Idle"

\* a pixel of a pure full-saturation hue, opaque
PureHue(px) ==
    /\ px[4] = 255
    /\ \E k \in 1..3 : px[k] = 255
    /\ \E k \in 1..3 : px[k] = 0

\* C19: every framebuffer pixel is all-zero or has alpha 255 with one of red,
\* green, blue equal to 255 and one equal to 0; the colour written for any
\* sample byte is of that kind.
C19_PixelsZeroOrPureHue ==
    /\ \A x \in 0..(specWidth - 1), y \in 0..(specHeight - 1) :
           \/ Pixel(specData, x, y) = <<0, 0, 0, 0>>
           \/ PureHue(Pixel(specData, x, y))
    /\ \A b \in 0..255 : PureHue(ColorOf(b) \o <<255>>)

C19_Witness ==
    /\ last.op = "update"
    /\ \E y \in 0..(specHeight - 1) :
           Pixel(specData, specWidth - 1, y) = ColorOf(200) \o <<255>>
    /\ \E y \in 0..(specHeight - 1) : Pixel(specData, 0, y) = <<0, 0, 0, 0>>

\* C20 (as claimed): the sweep line on the canvas is at the angle the tick that
\* drew it advanced to, which is the current sweep angle.
C20_LineAtAdvancedAngle == radarCanvas.line # -1 => radarCanvas.line = radarAngle

\* C20 (amended): the sweep line on the canvas is at the angle the tick that
\* drew it started with; the advance of lines 167-168 comes after the line, so
\* the current sweep angle is one advance past the line, and while nothing is
\* drawn the angle is 0.
C20_LineAtAngleBeforeAdvance ==
    /\ radarCanvas.line = -1 => radarAngle = 0
    /\ radarCanvas.line # -1 => radarAngle = NextAngle(radarCanvas.line)

C20_Witness ==
    /\ radarCanvas = [rings |-> TRUE, line |-> 0]
    /\ radarAngle = AngleStep

====
